---- MODULE Spec2Model ----
(***************************************************************************)
(* StrategyOptimizer (src/unnamed/part_002): the genetic search loop       *)
(* optimize, its operators generateInitialPopulation / crossover / mutate, *)
(* the backtest evaluateStrategy and the statistics calculateMetrics.      *)
(*                                                                         *)
(* JavaScript numbers are modelled as exact rationals extended with NaN    *)
(* and +/-Infinity, with the IEEE-754 rules for those special values       *)
(* (0/0 = NaN, x/0 = +/-Infinity, every comparison with NaN is false).     *)
(* Rounding of finite results and the sign of zero are not modelled.       *)
(* Math.sqrt is exact on squares of hundredths and otherwise rounds up to  *)
(* the next hundredth, so Math.sqrt(x) = 0 exactly when x = 0.             *)
(***************************************************************************)
EXTENDS Integers, Sequences, FiniteSets, TLC

VARIABLES
    pc,              \* position of the running function
    returns,         \* evaluateStrategy / calculateMetrics: returns
    metrics,         \* calculateMetrics result (NoValue before the call returns)
    strategy,        \* evaluateStrategy / mutate: the StrategyConfig argument
    historicalData,  \* evaluateStrategy / optimize: the bars
    i,               \* evaluateStrategy: loop index
    position,        \* evaluateStrategy: 0 flat, 1 long, -1 short
    entryPrice,      \* evaluateStrategy: entry price of the open position
    exitPrice,       \* evaluateStrategy: exit price of the last closed trade
    config,          \* this.config (OptimizationConfig)
    population,      \* optimize: population
    results,         \* optimize: results of the generation
    bestResult,      \* optimize: best-ever result (NoValue = null)
    selected,        \* optimize: breeding pool
    newPopulation,   \* optimize: next population being refilled
    generation,      \* optimize: loop counter
    parent1,         \* crossover argument
    parent2,         \* crossover argument
    child,           \* crossover result / mutate result
    error,           \* the exception that ended the run ("none" if none)
    seen,            \* history: the objective values evaluated so far in the run
    firstRun,        \* the result of an earlier optimize call on the same inputs
    workers          \* the locals of the evaluateStrategy calls of one generation

vars == <<pc, returns, metrics, strategy, historicalData, i, position, entryPrice,
          exitPrice, config, population, results, bestResult, selected,
          newPopulation, generation, parent1, parent2, child, error, seen,
          firstRun, workers>>

metricVars == <<returns, metrics>>
evalVars == <<strategy, historicalData, i, position, entryPrice, exitPrice>>
optVars == <<config, population, results, bestResult, selected, newPopulation,
             generation, error, seen>>
opVars == <<parent1, parent2, child, firstRun, workers>>

NoValue == [none |-> TRUE]

(***************************************************************************)
(* Numbers                                                                 *)
(***************************************************************************)
NaN == [k |-> "nan", n |-> 0, d |-> 1]
PosInf == [k |-> "inf", n |-> 1, d |-> 1]
NegInf == [k |-> "inf", n |-> -1, d |-> 1]

Abs(a) == IF a < 0 THEN -a ELSE a

RECURSIVE GCD(_, _)
GCD(a, b) == IF b = 0 THEN a ELSE GCD(b, a % b)

\* the rational n/d (d > 0) in lowest terms
Rat(n, d) ==
    IF d = 1 THEN [k |-> "fin", n |-> n, d |-> 1]
    ELSE LET g == GCD(Abs(n), d)
         IN [k |-> "fin", n |-> n \div g, d |-> d \div g]

Int2Num(a) == [k |-> "fin", n |-> a, d |-> 1]
Zero == Int2Num(0)
One == Int2Num(1)

IsNaN(x) == x.k = "nan"
IsFinite(x) == x.k = "fin"
Sign(x) == IF x.n > 0 THEN 1 ELSE IF x.n < 0 THEN -1 ELSE 0
SignedInf(s) == IF s > 0 THEN PosInf ELSE NegInf

Neg(x) == [x EXCEPT !.n = -x.n]

Add(x, y) ==
    IF IsNaN(x) \/ IsNaN(y) THEN NaN
    ELSE IF x.k = "inf" THEN (IF y.k = "inf" /\ y.n # x.n THEN NaN ELSE x)
    ELSE IF y.k = "inf" THEN y
    ELSE IF x.d = y.d THEN Rat(x.n + y.n, x.d)
    ELSE LET g == GCD(x.d, y.d)
         IN Rat(x.n * (y.d \div g) + y.n * (x.d \div g), (x.d \div g) * y.d)

Sub(x, y) == Add(x, Neg(y))

Mul(x, y) ==
    IF IsNaN(x) \/ IsNaN(y) THEN NaN
    ELSE IF x.k = "inf" \/ y.k = "inf"
         THEN (IF Sign(x) = 0 \/ Sign(y) = 0 THEN NaN ELSE SignedInf(Sign(x) * Sign(y)))
    ELSE IF x.d = 1 /\ y.d = 1 THEN Rat(x.n * y.n, 1)
    ELSE LET g1 == GCD(Abs(x.n), y.d)
             g2 == GCD(Abs(y.n), x.d)
         IN Rat((x.n \div g1) * (y.n \div g2), (x.d \div g2) * (y.d \div g1))

Div(x, y) ==
    IF IsNaN(x) \/ IsNaN(y) THEN NaN
    ELSE IF y.k = "inf" THEN (IF x.k = "inf" THEN NaN ELSE Zero)
    ELSE IF y.n = 0 THEN (IF Sign(x) = 0 THEN NaN ELSE SignedInf(Sign(x)))
    ELSE IF x.k = "inf" THEN SignedInf(Sign(x) * Sign(y))
    ELSE Mul(x, [k |-> "fin", n |-> Sign(y) * y.d, d |-> Abs(y.n)])

\* x < y as JavaScript evaluates it: false when either side is NaN
Lt(x, y) ==
    IF IsNaN(x) \/ IsNaN(y) THEN FALSE
    ELSE IF x.k = "inf" THEN x.n < 0 /\ ~(y.k = "inf" /\ y.n < 0)
    ELSE IF y.k = "inf" THEN y.n > 0
    ELSE LET g == GCD(x.d, y.d)
         IN x.n * (y.d \div g) < y.n * (x.d \div g)

Gt(x, y) == Lt(y, x)
Le(x, y) == ~IsNaN(x) /\ ~IsNaN(y) /\ ~Lt(y, x)
Ge(x, y) == Le(y, x)
\* x === y: NaN equals nothing, itself included
StrictEq(x, y) == ~IsNaN(x) /\ ~IsNaN(y) /\ x = y

MathMax(x, y) == IF IsNaN(x) \/ IsNaN(y) THEN NaN ELSE IF Lt(x, y) THEN y ELSE x
MathMin(x, y) == IF IsNaN(x) \/ IsNaN(y) THEN NaN ELSE IF Lt(y, x) THEN y ELSE x

Pow2(x) == Mul(x, x)

\* Math.sqrt, in hundredths rounded up
MathSqrt(x) ==
    IF IsNaN(x) \/ Sign(x) < 0 THEN NaN
    ELSE IF x.k = "inf" THEN PosInf
    ELSE LET top == 100 * ((x.n \div x.d) + 1)
             r == CHOOSE c \in 0..top :
                      /\ c * c * x.d >= 10000 * x.n
                      /\ \A b \in 0..(c - 1) : b * b * x.d < 10000 * x.n
         IN Rat(r, 100)

\* Math.floor of a finite number
MathFloor(x) == x.n \div x.d

(***************************************************************************)
(* calculateMetrics                                                        *)
(***************************************************************************)
RECURSIVE SumFrom(_, _, _)
\* returns.reduce((a, b) => a + f(b), 0) for the terms f(b) already in s
SumFrom(s, j, acc) ==
    IF j > Len(s) THEN acc ELSE SumFrom(s, j + 1, Add(acc, s[j]))

Sum(s) == SumFrom(s, 1, Zero)

Length(s) == Int2Num(Len(s))

riskFreeRate == Rat(2, 100)
TradingDays == 252

RECURSIVE DrawdownLoop(_, _, _, _, _)
\* the forEach of the maximum drawdown, from element j on
DrawdownLoop(rs, j, peak, maxDrawdown, currentValue) ==
    IF j > Len(rs) THEN maxDrawdown
    ELSE LET value == Mul(currentValue, Add(One, rs[j]))
             newPeak == IF Gt(value, peak) THEN value ELSE peak
             drawdown == Div(Sub(newPeak, value), newPeak)
         IN DrawdownLoop(rs, j + 1, newPeak, MathMax(maxDrawdown, drawdown), value)

\* MaxDrawdownOf with the running peak starting at the initial value 1
MaxDrawdownFromUnit(rs) == DrawdownLoop(rs, 1, One, Zero, One)

MaxDrawdownOf(rs) == DrawdownLoop(rs, 1, Zero, Zero, One)

calculateMetrics(rs) ==
    LET totalReturn == Sum(rs)
        avgReturn == Div(totalReturn, Length(rs))
        stdDev == MathSqrt(Div(Sum([j \in 1..Len(rs) |-> Pow2(Sub(rs[j], avgReturn))]),
                               Length(rs)))
        excess == Sub(avgReturn, Div(riskFreeRate, Int2Num(TradingDays)))
        sharpeRatio == IF StrictEq(stdDev, Zero) THEN Zero
                       ELSE Mul(Div(excess, stdDev), MathSqrt(Int2Num(TradingDays)))
        downsideReturns == SelectSeq(rs, LAMBDA r : Lt(r, Zero))
        downsideStdDev ==
            MathSqrt(Div(Sum([j \in 1..Len(downsideReturns) |-> Pow2(downsideReturns[j])]),
                         Length(rs)))
        sortinoRatio == IF StrictEq(downsideStdDev, Zero) THEN Zero
                        ELSE Mul(Div(excess, downsideStdDev),
                                 MathSqrt(Int2Num(TradingDays)))
        maxDrawdown == MaxDrawdownOf(rs)
        calmarRatio == IF StrictEq(maxDrawdown, Zero) THEN Zero
                       ELSE Div(Mul(avgReturn, Int2Num(TradingDays)), maxDrawdown)
        winRate == Div(Length(SelectSeq(rs, LAMBDA r : Gt(r, Zero))), Length(rs))
    IN [sharpeRatio |-> sharpeRatio,
        sortinoRatio |-> sortinoRatio,
        calmarRatio |-> calmarRatio,
        maxDrawdown |-> maxDrawdown,
        totalReturn |-> totalReturn,
        winRate |-> winRate]

(***************************************************************************)
(* evaluateStrategy                                                        *)
(***************************************************************************)
SmaShort == 20
SmaLong == 50

\* historicalData[j] and historicalData.slice(from, to), indices from 0
At(data, j) == data[j + 1]
Slice(data, from, to) == SubSeq(data, from + 1, IF to < Len(data) THEN to ELSE Len(data))
\* Max0 for windows ten bars shorter: Math.max(0, a + 10)
Max0Shifted(a) == IF a + 10 > 0 THEN a + 10 ELSE 0

Max0(a) == IF a > 0 THEN a ELSE 0

calculateSMA(data) ==
    Div(Sum([j \in 1..Len(data) |-> data[j].close]), Length(data))

Percent(p) == Div(p, Int2Num(100))

StopLossPrice(s, pos, entry) ==
    IF pos = 1 THEN Mul(entry, Sub(One, Percent(s.stopLossPercentage)))
    ELSE Mul(entry, Add(One, Percent(s.stopLossPercentage)))

TakeProfitPrice(s, pos, entry) ==
    IF pos = 1 THEN Mul(entry, Add(One, Percent(s.takeProfitPercentage)))
    ELSE Mul(entry, Sub(One, Percent(s.takeProfitPercentage)))

\* the condition of the if at lines 173-178
ExitTouched(pos, bar, stopLoss, takeProfit) ==
    \/ (pos = 1 /\ Le(bar.low, stopLoss))
    \/ (pos = -1 /\ Ge(bar.high, stopLoss))
    \/ (pos = 1 /\ Ge(bar.high, takeProfit))
    \/ (pos = -1 /\ Le(bar.low, takeProfit))

\* ExitPriceOf resolving a bar that touches both prices to the target
ExitPriceOfOptimistic(pos, stopLoss, takeProfit) ==
    IF pos = 1 THEN MathMax(stopLoss, takeProfit) ELSE MathMin(stopLoss, takeProfit)

\* ExitPriceOf closing every trade at its target
ExitPriceOfTarget(pos, stopLoss, takeProfit) == takeProfit

ExitPriceOf(pos, stopLoss, takeProfit) ==
    IF pos = 1 THEN MathMin(stopLoss, takeProfit) ELSE MathMax(stopLoss, takeProfit)

\* TradeReturn without the direction of the position
TradeReturnUnsigned(pos, exit, entry) == Div(Sub(exit, entry), entry)

TradeReturn(pos, exit, entry) == Div(Mul(Int2Num(pos), Sub(exit, entry)), entry)

\* the locals of evaluateStrategy before the loop
EvalStart ==
    [i |-> 1, position |-> 0, entryPrice |-> Zero, exitPrice |-> Zero, returns |-> <<>>]

\* one iteration of the for loop, on the locals st
EvalIter(s, data, st) ==
    LET currentData == At(data, st.i)
        sma20 == calculateSMA(Slice(data, Max0(st.i - SmaShort), st.i + 1))
        sma50 == calculateSMA(Slice(data, Max0(st.i - SmaLong), st.i + 1))
        stopLoss == StopLossPrice(s, st.position, st.entryPrice)
        takeProfit == TakeProfitPrice(s, st.position, st.entryPrice)
        exit == ExitPriceOf(st.position, stopLoss, takeProfit)
    IN IF st.position = 0
       THEN IF Gt(sma20, sma50)
            THEN [st EXCEPT !.i = @ + 1, !.position = 1, !.entryPrice = currentData.close]
            ELSE IF Lt(sma20, sma50)
            THEN [st EXCEPT !.i = @ + 1, !.position = -1, !.entryPrice = currentData.close]
            ELSE [st EXCEPT !.i = @ + 1]
       ELSE IF ExitTouched(st.position, currentData, stopLoss, takeProfit)
            THEN [st EXCEPT !.i = @ + 1, !.position = 0, !.exitPrice = exit,
                            !.returns = Append(@, TradeReturn(st.position, exit, st.entryPrice))]
            ELSE [st EXCEPT !.i = @ + 1]

RECURSIVE EvalLoop(_, _, _)
EvalLoop(s, data, st) ==
    IF st.i < Len(data) THEN EvalLoop(s, data, EvalIter(s, data, st)) ELSE st

evaluateStrategy(s, data) ==
    [parameters |-> s, metrics |-> calculateMetrics(EvalLoop(s, data, EvalStart).returns)]

(***************************************************************************)
(* Inputs                                                                  *)
(***************************************************************************)
MaxReturns == 3
MaxTail == 2

ReturnValues == {Rat(n, 2) : n \in -3..2}
ReturnSeqs == UNION {[1..n -> ReturnValues] : n \in 0..MaxReturns}

Bar(c, l, h) == [close |-> Int2Num(c), low |-> Int2Num(l), high |-> Int2Num(h)]

\* 22 bars: the first closes at c0, the next 21 at 100
Prefix(c0) == <<Bar(c0, c0, c0)>> \o [j \in 1..(SmaShort + 1) |-> Bar(100, 100, 100)]
TailBars == {Bar(100, 94, 111), Bar(100, 99, 101), Bar(100, 94, 101),
             Bar(104, 99, 111), Bar(100, 89, 111)}
Tails == UNION {[1..n -> TailBars] : n \in 0..MaxTail}
\* n bars closing at 90 and 110 in turn, and n bars closing one higher each
Zigzag(n) == [j \in 1..n |-> IF j % 2 = 1 THEN Bar(90, 85, 95) ELSE Bar(110, 105, 115)]
Ramp(n) == [j \in 1..n |-> Bar(100 + j, 99 + j, 101 + j)]
DataSets ==
    {<<>>, <<Bar(100, 99, 101)>>}
    \cup {Zigzag(n) : n \in {2, SmaShort + 1, SmaShort + 2}}
    \cup {Ramp(n) : n \in {2, SmaShort + 1, SmaShort + 2}}
    \cup {Prefix(c0) \o t : c0 \in {90, 100, 110}, t \in Tails}

MakeStrategy(nm, mps, sl, tp, mdd) ==
    [name |-> nm, description |-> "Optimized strategy", riskLevel |-> "medium",
     maxPositionSize |-> mps, stopLossPercentage |-> sl, takeProfitPercentage |-> tp,
     maxDrawdown |-> mdd, rebalanceFrequency |-> "daily",
     indicators |-> <<"sma", "ema", "rsi", "macd">>]

EvalStrategies ==
    {MakeStrategy("Strategy_0", Rat(1, 10), Int2Num(sl), Int2Num(tp), Rat(1, 5)) :
        sl \in {5, 50}, tp \in {10, 20}}

(***************************************************************************)
(* calculateMetrics on its own                                             *)
(***************************************************************************)
IdleMetric == returns = <<>> /\ metrics = NoValue
IdleEval ==
    /\ strategy = NoValue /\ historicalData = <<>> /\ i = 0
    /\ position = 0 /\ entryPrice = Zero /\ exitPrice = Zero
IdleOpt ==
    /\ config = NoValue /\ population = <<>> /\ results = <<>> /\ bestResult = NoValue
    /\ selected = <<>> /\ newPopulation = <<>> /\ generation = 0 /\ error = "none"
    /\ seen = {}
IdleOps ==
    /\ parent1 = NoValue /\ parent2 = NoValue /\ child = NoValue
    /\ firstRun = NoValue /\ workers = <<>>

InitMetrics ==
    /\ pc = "calculateMetrics"
    /\ returns \in ReturnSeqs
    /\ metrics = NoValue
    /\ IdleEval /\ IdleOpt /\ IdleOps

CalculateMetrics ==
    /\ pc = "calculateMetrics"
    /\ metrics' = calculateMetrics(returns)
    /\ pc' = "returned"
    /\ UNCHANGED <<returns, evalVars, optVars, opVars>>

NextMetrics == CalculateMetrics
SpecMetrics == InitMetrics /\ [][NextMetrics]_vars

(***************************************************************************)
(* evaluateStrategy on its own, one loop iteration per step                *)
(***************************************************************************)
InitEval ==
    /\ pc = "evaluateStrategy"
    /\ strategy \in EvalStrategies
    /\ historicalData \in DataSets
    /\ i = EvalStart.i
    /\ position = EvalStart.position
    /\ entryPrice = EvalStart.entryPrice
    /\ exitPrice = EvalStart.exitPrice
    /\ returns = EvalStart.returns
    /\ metrics = NoValue
    /\ IdleOpt /\ IdleOps

EvalLocals ==
    [i |-> i, position |-> position, entryPrice |-> entryPrice,
     exitPrice |-> exitPrice, returns |-> returns]

EvalStep ==
    /\ pc = "evaluateStrategy"
    /\ i < Len(historicalData)
    /\ LET st == EvalIter(strategy, historicalData, EvalLocals)
       IN /\ i' = st.i
          /\ position' = st.position
          /\ entryPrice' = st.entryPrice
          /\ exitPrice' = st.exitPrice
          /\ returns' = st.returns
    /\ UNCHANGED <<pc, metrics, strategy, historicalData, optVars, opVars>>

\* EvalReturn closing a position still open after the last bar at that bar's close
EvalReturnClosing ==
    /\ pc = "evaluateStrategy"
    /\ ~(i < Len(historicalData))
    /\ IF position # 0 /\ Len(historicalData) > 0
       THEN /\ exitPrice' = historicalData[Len(historicalData)].close
            /\ returns' = Append(returns, TradeReturn(position, exitPrice', entryPrice))
            /\ position' = 0
       ELSE UNCHANGED <<returns, position, exitPrice>>
    /\ metrics' = calculateMetrics(returns')
    /\ pc' = "returned"
    /\ UNCHANGED <<strategy, historicalData, i, entryPrice, optVars, opVars>>

EvalReturn ==
    /\ pc = "evaluateStrategy"
    /\ ~(i < Len(historicalData))
    /\ metrics' = calculateMetrics(returns)
    /\ pc' = "returned"
    /\ UNCHANGED <<returns, evalVars, optVars, opVars>>

NextEval == EvalStep \/ EvalReturn
SpecEval == InitEval /\ [][NextEval]_vars

(***************************************************************************)
(* generateInitialPopulation, crossover, mutate                            *)
(***************************************************************************)
\* the values Math.random() is drawn from (it never returns 1)
RandomValues == {Zero, Rat(1, 2)}
\* the draw behind a crossover child's display name
NameRandoms == {Rat(1, 2)}

Half == Rat(1, 2)

\* randomInRange drawing above max
randomAboveRange(min, max, r) == Add(max, Mul(r, Sub(max, min)))

randomInRange(min, max, r) == Add(min, Mul(r, Sub(max, min)))

\* randomInRange(...range) for a constraint [min, max]
DrawIn(range, r) == randomInRange(range[1], range[2], r)

\* population[j] of generateInitialPopulation; r holds its four draws
InitialStrategy(cfg, j, r) ==
    [name |-> "Strategy_" \o ToString(j),
     description |-> "Optimized strategy",
     riskLevel |-> "medium",
     maxPositionSize |-> DrawIn(cfg.constraints.maxPositionSize, r[1]),
     stopLossPercentage |-> DrawIn(cfg.constraints.stopLossPercentage, r[2]),
     takeProfitPercentage |-> DrawIn(cfg.constraints.takeProfitPercentage, r[3]),
     maxDrawdown |-> DrawIn(cfg.constraints.maxDrawdown, r[4]),
     rebalanceFrequency |-> "daily",
     indicators |-> <<"sma", "ema", "rsi", "macd">>]

RECURSIVE PopulationsOf(_, _)
\* the populations the loop of generateInitialPopulation can have pushed after n rounds
PopulationsOf(cfg, n) ==
    IF n <= 0 THEN {<<>>}
    ELSE {Append(p, InitialStrategy(cfg, n - 1, r)) :
             p \in PopulationsOf(cfg, n - 1), r \in [1..4 -> RandomValues]}

\* the populations generateInitialPopulation can return, over the draws of Math.random
\* generateInitialPopulation stopping one candidate short
generateInitialPopulationShort(cfg) == PopulationsOf(cfg, cfg.populationSize - 1)

generateInitialPopulation(cfg) == PopulationsOf(cfg, cfg.populationSize)

RECURSIVE Dedup(_, _, _)
\* [...new Set(s)]: first occurrences, in order
Dedup(s, j, acc) ==
    IF j > Len(s) THEN acc
    ELSE Dedup(s, j + 1,
               IF \E m \in 1..Len(acc) : acc[m] = s[j] THEN acc ELSE Append(acc, s[j]))

\* Math.random() < 0.5 ? a : b
Pick(r, a, b) == IF Lt(r, Half) THEN a ELSE b

\* Math.random().toString(36).substr(2, 9)
Base36Tail(r) == IF r = Zero THEN "" ELSE IF r = Half THEN "i" ELSE "r"

\* crossover blending the position size and keeping repeated indicators
crossoverBlend(p1, p2, r, rn) ==
    [name |-> "Strategy_" \o Base36Tail(rn),
     description |-> "Optimized strategy",
     riskLevel |-> Pick(r[1], p1.riskLevel, p2.riskLevel),
     maxPositionSize |-> Div(Add(p1.maxPositionSize, p2.maxPositionSize), Int2Num(2)),
     stopLossPercentage |-> Pick(r[3], p1.stopLossPercentage, p2.stopLossPercentage),
     takeProfitPercentage |-> Pick(r[4], p1.takeProfitPercentage, p2.takeProfitPercentage),
     maxDrawdown |-> Pick(r[5], p1.maxDrawdown, p2.maxDrawdown),
     rebalanceFrequency |-> Pick(r[6], p1.rebalanceFrequency, p2.rebalanceFrequency),
     indicators |-> p1.indicators \o p2.indicators]

\* r holds the six draws of the conditionals, rn the draw of the name
crossover(p1, p2, r, rn) ==
    [name |-> "Strategy_" \o Base36Tail(rn),
     description |-> "Optimized strategy",
     riskLevel |-> Pick(r[1], p1.riskLevel, p2.riskLevel),
     maxPositionSize |-> Pick(r[2], p1.maxPositionSize, p2.maxPositionSize),
     stopLossPercentage |-> Pick(r[3], p1.stopLossPercentage, p2.stopLossPercentage),
     takeProfitPercentage |-> Pick(r[4], p1.takeProfitPercentage, p2.takeProfitPercentage),
     maxDrawdown |-> Pick(r[5], p1.maxDrawdown, p2.maxDrawdown),
     rebalanceFrequency |-> Pick(r[6], p1.rebalanceFrequency, p2.rebalanceFrequency),
     indicators |-> Dedup(p1.indicators \o p2.indicators, 1, <<>>)]

\* CrossoverOutcomes handing parent1 on in place of a new child
CrossoverCarriesParent(p1, p2) == {p1}

\* the children crossover can return, over the draws of Math.random; the
\* conditionals draw independently, so the outcomes are collected field by field
CrossoverOutcomes(p1, p2) ==
    LET out(a, b) == {Pick(r, a, b) : r \in RandomValues}
        ind == Dedup(p1.indicators \o p2.indicators, 1, <<>>)
    IN {[name |-> "Strategy_" \o Base36Tail(rn),
         description |-> "Optimized strategy",
         riskLevel |-> rl, maxPositionSize |-> a, stopLossPercentage |-> b,
         takeProfitPercentage |-> e, maxDrawdown |-> f, rebalanceFrequency |-> rf,
         indicators |-> ind] :
           rn \in NameRandoms,
           rl \in out(p1.riskLevel, p2.riskLevel),
           a \in out(p1.maxPositionSize, p2.maxPositionSize),
           b \in out(p1.stopLossPercentage, p2.stopLossPercentage),
           e \in out(p1.takeProfitPercentage, p2.takeProfitPercentage),
           f \in out(p1.maxDrawdown, p2.maxDrawdown),
           rf \in out(p1.rebalanceFrequency, p2.rebalanceFrequency)}

\* MutationHit with <= for <
MutationHitInclusive(r, rate) == Le(r, rate)

\* Math.random() < this.config.mutationRate
MutationHit(r, rate) == Lt(r, rate)

\* one if of mutate: g is the draw of its condition, d the draw of randomInRange
MutateField(value, range, rate, g, d) ==
    IF MutationHit(g, rate) THEN DrawIn(range, d) ELSE value

\* g holds the four draws of the conditions, d the four draws of randomInRange
mutate(s, cfg, g, d) ==
    LET c == cfg.constraints
        rate == cfg.mutationRate
    IN [s EXCEPT
         !.maxPositionSize = MutateField(@, c.maxPositionSize, rate, g[1], d[1]),
         !.stopLossPercentage = MutateField(@, c.stopLossPercentage, rate, g[2], d[2]),
         !.takeProfitPercentage = MutateField(@, c.takeProfitPercentage, rate, g[3], d[3]),
         !.maxDrawdown = MutateField(@, c.maxDrawdown, rate, g[4], d[4])]

\* ArgumentAfter for `const mutated = strategy`: the writes reach the argument
ArgumentAliased(s, result) == result

\* the argument of mutate after the call that returned result: mutated is a
\* spread copy, so the assignments leave the argument's fields as they were
ArgumentAfter(s, result) == s

\* the configs mutate can return, over the draws of Math.random; the four ifs
\* draw independently, so the outcomes are collected field by field
MutateOutcomes(s, cfg) ==
    LET c == cfg.constraints
        out(value, range) ==
            {MutateField(value, range, cfg.mutationRate, g, d) :
                g \in RandomValues, d \in RandomValues}
    IN {[s EXCEPT !.maxPositionSize = a, !.stopLossPercentage = b,
                  !.takeProfitPercentage = e, !.maxDrawdown = f] :
           a \in out(s.maxPositionSize, c.maxPositionSize),
           b \in out(s.stopLossPercentage, c.stopLossPercentage),
           e \in out(s.takeProfitPercentage, c.takeProfitPercentage),
           f \in out(s.maxDrawdown, c.maxDrawdown)}

(***************************************************************************)
(* optimize                                                                *)
(***************************************************************************)
Objective(res, obj) == res.metrics[obj]

RECURSIVE ReduceBest(_, _, _, _)
\* results.reduce((best, current) => ...) with no initial value: best starts at
\* results[0] and the callback runs from results[1] on
ReduceBest(rs, obj, j, best) ==
    IF j > Len(rs) THEN best
    ELSE ReduceBest(rs, obj, j + 1,
                    IF Gt(Objective(rs[j], obj), Objective(best, obj)) THEN rs[j] ELSE best)

\* CurrentBest reducing from the right: best starts at the last result
CurrentBestFromLast(rs, obj) == ReduceBest(rs, obj, 1, rs[Len(rs)])

CurrentBest(rs, obj) == ReduceBest(rs, obj, 2, rs[1])

\* ReplacesBest letting an equal objective replace the incumbent
ReplacesBestOnTie(best, currentBest, obj) ==
    best = NoValue \/ Ge(Objective(currentBest, obj), Objective(best, obj))

\* the condition of the if at line 246
ReplacesBest(best, currentBest, obj) ==
    best = NoValue \/ Gt(Objective(currentBest, obj), Objective(best, obj))

\* the sign of the comparator (a, b) => b.metrics[obj] - a.metrics[obj];
\* sort takes a NaN result as +0
Comparator(a, b, obj) ==
    LET v == Sub(Objective(b, obj), Objective(a, obj))
    IN IF IsNaN(v) THEN 0 ELSE Sign(v)

\* whether the comparator is a consistent comparator on rs (ECMA-262, Array.prototype.sort)
ConsistentOn(rs, obj) ==
    \A a \in 1..Len(rs), b \in 1..Len(rs), c \in 1..Len(rs) :
        LET ab == Comparator(rs[a], rs[b], obj)
            bc == Comparator(rs[b], rs[c], obj)
            ac == Comparator(rs[a], rs[c], obj)
        IN /\ (ab = 0 /\ bc = 0) => ac = 0
           /\ (ab < 0 /\ bc < 0) => ac < 0
           /\ (ab > 0 /\ bc > 0) => ac > 0

\* the orders results.sort(comparator) may leave: the stable order when the
\* comparator is consistent, an implementation-defined permutation otherwise
SortOutcomes(rs, obj) ==
    LET perms == Permutations(1..Len(rs))
        stable == {p \in perms : \A u \in 1..Len(rs), v \in 1..Len(rs) :
                      u < v => \/ Comparator(rs[p[u]], rs[p[v]], obj) < 0
                               \/ (Comparator(rs[p[u]], rs[p[v]], obj) = 0 /\ p[u] < p[v])}
        allowed == IF ConsistentOn(rs, obj) THEN stable ELSE perms
    IN {[u \in 1..Len(rs) |-> rs[p[u]]] : p \in allowed}

\* SelectTop keeping floor((n - 1) / 2) results
SelectTopShort(sorted, n) ==
    SubSeq(sorted, 1, MathFloor(Div(Int2Num(n - 1), Int2Num(2))))

\* sortedResults.slice(0, Math.floor(population.length / 2))
SelectTop(sorted, n) == SubSeq(sorted, 1, MathFloor(Div(Int2Num(n), Int2Num(2))))

\* Math.floor(Math.random() * selected.length), as an index from 0
ParentIndex(r, sel) == MathFloor(Mul(r, Length(sel)))

\* selected[Math.floor(Math.random() * selected.length)].parameters
Parent(r, sel) == sel[ParentIndex(r, sel) + 1].parameters

\* the parents one draw can pick from the pool
ParentOutcomes(sel) == {Parent(r, sel) : r \in RandomValues}

\* LoopHead with <= for <
LoopHeadInclusive(cfg, g) == IF g <= cfg.generations THEN "Evaluating" ELSE "Finishing"

\* where the for loop goes with the counter at g
LoopHead(cfg, g) == IF g < cfg.generations THEN "Evaluating" ELSE "Finishing"

MaxPop == 3
MaxGen == 2

Range(lo, hi) == <<lo, hi>>

\* only the stop loss is searched
ConstraintsStop ==
    [maxPositionSize |-> Range(Rat(1, 10), Rat(1, 10)),
     stopLossPercentage |-> Range(Int2Num(5), Int2Num(95)),
     takeProfitPercentage |-> Range(Int2Num(10), Int2Num(10)),
     maxDrawdown |-> Range(Rat(1, 5), Rat(1, 5))]
\* position size and drawdown limit are searched
ConstraintsRisk ==
    [maxPositionSize |-> Range(Rat(1, 10), Rat(1, 2)),
     stopLossPercentage |-> Range(Int2Num(5), Int2Num(5)),
     takeProfitPercentage |-> Range(Int2Num(10), Int2Num(10)),
     maxDrawdown |-> Range(Rat(1, 10), Rat(3, 10))]
\* stop loss and take profit are searched
ConstraintsWide ==
    [maxPositionSize |-> Range(Rat(1, 10), Rat(1, 10)),
     stopLossPercentage |-> Range(Int2Num(5), Int2Num(95)),
     takeProfitPercentage |-> Range(Int2Num(10), Int2Num(30)),
     maxDrawdown |-> Range(Rat(1, 5), Rat(1, 5))]
\* a stop-loss bound with min above max
ConstraintsInverted ==
    [maxPositionSize |-> Range(Rat(1, 10), Rat(1, 10)),
     stopLossPercentage |-> Range(Int2Num(95), Int2Num(5)),
     takeProfitPercentage |-> Range(Int2Num(10), Int2Num(10)),
     maxDrawdown |-> Range(Rat(1, 5), Rat(1, 5))]
ConstraintChoices == {ConstraintsStop, ConstraintsRisk, ConstraintsWide, ConstraintsInverted}

MutationRates == {Zero, Half, One}

\* no bars; one trade that only a tight stop closes; one trade that a tight stop
\* or a near target closes; two trades
NoBars == <<>>
OneTrade == Prefix(90) \o <<Bar(100, 94, 101)>>
OneSwing == Prefix(90) \o <<Bar(100, 94, 111)>>
TwoTrades == Prefix(90) \o <<Bar(100, 94, 111), Bar(100, 99, 101), Bar(100, 94, 111)>>
OptData == {NoBars, OneTrade, OneSwing, TwoTrades}

OptConfig(n, g, rate, obj, c) ==
    [populationSize |-> n, generations |-> g, mutationRate |-> rate,
     crossoverRate |-> Half, objective |-> obj, constraints |-> c]

\* the runs <<config, historicalData>>: every population size and generation
\* count up to the bounds on a search of the stop loss, and searches of two
\* parameters at a fixed size
Runs ==
    {<<OptConfig(n, g, Half, od[1], ConstraintsStop), od[2]>> :
        n \in 0..MaxPop, g \in 0..MaxGen,
        od \in {<<"sharpeRatio", NoBars>>, <<"sharpeRatio", OneTrade>>,
                <<"sortinoRatio", OneTrade>>, <<"sharpeRatio", TwoTrades>>,
                <<"sortinoRatio", TwoTrades>>, <<"calmarRatio", TwoTrades>>,
                <<"maxDrawdown", TwoTrades>>}}
    \cup
    {<<OptConfig(2, MaxGen, rate, obj, ConstraintsRisk), TwoTrades>> :
        rate \in {Zero, One}, obj \in {"calmarRatio", "maxDrawdown"}}
    \cup
    {<<OptConfig(3, 1, Half, "sortinoRatio", ConstraintsWide), OneSwing>>,
     <<OptConfig(2, 2, Half, "maxDrawdown", ConstraintsWide), TwoTrades>>,
     <<OptConfig(2, 1, Half, "calmarRatio", ConstraintsWide), TwoTrades>>,
     <<OptConfig(2, 1, Half, "sortinoRatio", ConstraintsInverted), TwoTrades>>}
    \cup
    {<<OptConfig(ng[1], ng[2], Half, "sharpeRatio", ConstraintsStop), OneTrade>> :
        ng \in {<<-1, 1>>, <<2, -1>>, <<-1, -1>>}}

\* evaluateStrategy's metrics for the inputs of the optimize runs, computed once:
\* the simulation reads of the strategy only its two percentages
EvalCache ==
    {[sl |-> DrawIn(c.stopLossPercentage, r1), tp |-> DrawIn(c.takeProfitPercentage, r2),
      data |-> d,
      returns |-> EvalLoop(MakeStrategy("", Zero, DrawIn(c.stopLossPercentage, r1),
                                        DrawIn(c.takeProfitPercentage, r2), Zero),
                           d, EvalStart).returns,
      metrics |-> evaluateStrategy(
                      MakeStrategy("", Zero, DrawIn(c.stopLossPercentage, r1),
                                   DrawIn(c.takeProfitPercentage, r2), Zero), d).metrics] :
        c \in ConstraintChoices, r1 \in RandomValues, r2 \in RandomValues, d \in OptData}

\* the returns evaluateStrategy(s, data) hands to calculateMetrics
ReturnsOf(s, data) ==
    LET hits == {e \in EvalCache : /\ e.sl = s.stopLossPercentage
                                   /\ e.tp = s.takeProfitPercentage
                                   /\ e.data = data}
    IN IF hits = {} THEN EvalLoop(s, data, EvalStart).returns
       ELSE (CHOOSE e \in hits : TRUE).returns

\* evaluateStrategy(s, data), looked up when the input is a cached one
Evaluated(s, data) ==
    LET hits == {e \in EvalCache : /\ e.sl = s.stopLossPercentage
                                   /\ e.tp = s.takeProfitPercentage
                                   /\ e.data = data}
    IN IF hits = {} THEN evaluateStrategy(s, data)
       ELSE [parameters |-> s, metrics |-> (CHOOSE e \in hits : TRUE).metrics]

Init ==
    /\ pc = "Initializing"
    /\ \E run \in Runs : config = run[1] /\ historicalData = run[2]
    /\ population = <<>>
    /\ results = <<>>
    /\ bestResult = NoValue
    /\ selected = <<>>
    /\ newPopulation = <<>>
    /\ generation = 0
    /\ error = "none"
    /\ seen = {}
    /\ strategy = NoValue /\ i = 0 /\ position = 0 /\ entryPrice = Zero /\ exitPrice = Zero
    /\ IdleMetric /\ IdleOps

\* lines 231-232 and the first test of the for loop
Initialize ==
    /\ pc = "Initializing"
    /\ population' \in generateInitialPopulation(config)
    /\ bestResult' = NoValue
    /\ generation' = 0
    /\ pc' = LoopHead(config, 0)
    /\ UNCHANGED <<config, results, selected, newPopulation, error, seen,
                   metricVars, evalVars, opVars>>

\* lines 235-237: every evaluateStrategy call runs to its end when map calls it
Evaluate ==
    /\ pc = "Evaluating"
    /\ results' = [j \in 1..Len(population) |-> Evaluated(population[j], historicalData)]
    /\ seen' = seen \cup {Objective(results'[j], config.objective) : j \in 1..Len(population)}
    /\ pc' = "UpdatingBest"
    /\ UNCHANGED <<config, population, bestResult, selected, newPopulation, generation,
                   error, metricVars, evalVars, opVars>>

\* lines 240-248; reduce of an empty array with no initial value throws
UpdateBest ==
    /\ pc = "UpdatingBest"
    /\ IF Len(results) = 0
       THEN /\ error' = "TypeError"
            /\ pc' = "Thrown"
            /\ UNCHANGED bestResult
       ELSE /\ bestResult' =
                   IF ReplacesBest(bestResult, CurrentBest(results, config.objective),
                                   config.objective)
                   THEN CurrentBest(results, config.objective) ELSE bestResult
            /\ pc' = "Selecting"
            /\ UNCHANGED error
    /\ UNCHANGED <<config, population, results, selected, newPopulation, generation,
                   seen, metricVars, evalVars, opVars>>

\* lines 251-257; sort orders results in place
Select ==
    /\ pc = "Selecting"
    /\ \E sorted \in SortOutcomes(results, config.objective) :
           /\ results' = sorted
           /\ selected' = SelectTop(sorted, Len(population))
    /\ newPopulation' = <<>>
    /\ pc' = "Recombining"
    /\ UNCHANGED <<config, population, bestResult, generation, error, seen,
                   metricVars, evalVars, opVars>>

\* one round of the while loop, lines 258-264; selected[0] of an empty pool is
\* undefined and reading its parameters throws
Recombine ==
    /\ pc = "Recombining"
    /\ Len(newPopulation) < config.populationSize
    /\ IF Len(selected) = 0
       THEN /\ error' = "TypeError"
            /\ pc' = "Thrown"
            /\ UNCHANGED newPopulation
       ELSE /\ \E p1 \in ParentOutcomes(selected), p2 \in ParentOutcomes(selected) :
                  \E c \in CrossoverOutcomes(p1, p2) :
                      \E m \in MutateOutcomes(c, config) :
                          newPopulation' = Append(newPopulation, m)
            /\ UNCHANGED <<pc, error>>
    /\ UNCHANGED <<config, population, results, bestResult, selected,
                   generation, seen, metricVars, evalVars, opVars>>

\* lines 266-270 and the next test of the for loop
EndGeneration ==
    /\ pc = "Recombining"
    /\ ~(Len(newPopulation) < config.populationSize)
    /\ population' = newPopulation
    /\ generation' = generation + 1
    /\ pc' = LoopHead(config, generation + 1)
    /\ UNCHANGED <<config, results, bestResult, selected, newPopulation, error, seen,
                   metricVars, evalVars, opVars>>

\* lines 273-277
Finish ==
    /\ pc = "Finishing"
    /\ IF bestResult = NoValue
       THEN error' = "Optimization failed to find a solution" /\ pc' = "Thrown"
       ELSE error' = error /\ pc' = "Done"
    /\ UNCHANGED <<config, population, results, bestResult, selected, newPopulation,
                   generation, seen, metricVars, evalVars, opVars>>

Next ==
    \/ Initialize
    \/ Evaluate
    \/ UpdateBest
    \/ Select
    \/ Recombine
    \/ EndGeneration
    \/ Finish

Spec == Init /\ [][Next]_vars

(***************************************************************************)
(* crossover and mutate on their own                                       *)
(***************************************************************************)
\* every parameter is searched
ConstraintsFull ==
    [maxPositionSize |-> Range(Rat(1, 10), Rat(1, 2)),
     stopLossPercentage |-> Range(Int2Num(5), Int2Num(95)),
     takeProfitPercentage |-> Range(Int2Num(10), Int2Num(30)),
     maxDrawdown |-> Range(Rat(1, 10), Rat(3, 10))]

\* parents whose values no draw within ConstraintsFull produces
OpParents ==
    {[name |-> "Strategy_a", description |-> "Optimized strategy", riskLevel |-> "low",
      maxPositionSize |-> Rat(1, 5), stopLossPercentage |-> Int2Num(20),
      takeProfitPercentage |-> Int2Num(15), maxDrawdown |-> Rat(3, 20),
      rebalanceFrequency |-> "daily", indicators |-> <<"sma", "ema">>],
     [name |-> "Strategy_b", description |-> "Optimized strategy", riskLevel |-> "high",
      maxPositionSize |-> Rat(2, 5), stopLossPercentage |-> Int2Num(80),
      takeProfitPercentage |-> Int2Num(25), maxDrawdown |-> Rat(1, 4),
      rebalanceFrequency |-> "weekly", indicators |-> <<"ema", "rsi", "ema">>],
     [name |-> "Strategy_c", description |-> "Optimized strategy", riskLevel |-> "medium",
      maxPositionSize |-> Rat(1, 5), stopLossPercentage |-> Int2Num(80),
      takeProfitPercentage |-> Int2Num(15), maxDrawdown |-> Rat(1, 4),
      rebalanceFrequency |-> "monthly", indicators |-> <<"macd">>]}

InitOps ==
    /\ pc = "crossover"
    /\ config \in {OptConfig(2, 1, rate, "sharpeRatio", ConstraintsFull) : rate \in MutationRates}
    /\ parent1 \in OpParents
    /\ parent2 \in OpParents
    /\ child = NoValue
    /\ strategy = NoValue
    /\ historicalData = <<>> /\ i = 0 /\ position = 0 /\ entryPrice = Zero /\ exitPrice = Zero
    /\ population = <<>> /\ results = <<>> /\ bestResult = NoValue
    /\ selected = <<>> /\ newPopulation = <<>> /\ generation = 0 /\ error = "none"
    /\ seen = {}
    /\ firstRun = NoValue /\ workers = <<>>
    /\ IdleMetric

\* let child = this.crossover(parent1, parent2)
CrossoverCall ==
    /\ pc = "crossover"
    /\ \E r \in [1..6 -> RandomValues], rn \in RandomValues :
           child' = crossover(parent1, parent2, r, rn)
    /\ pc' = "mutate"
    /\ UNCHANGED <<parent1, parent2, strategy, historicalData, i, position, entryPrice,
                   exitPrice, firstRun, workers, metricVars, optVars>>

\* child = this.mutate(child); strategy keeps the object passed as argument
MutateCall ==
    /\ pc = "mutate"
    /\ \E g \in [1..4 -> RandomValues], d \in [1..4 -> RandomValues] :
           child' = mutate(child, config, g, d)
    /\ strategy' = ArgumentAfter(child, child')
    /\ pc' = "returned"
    /\ UNCHANGED <<parent1, parent2, historicalData, i, position, entryPrice,
                   exitPrice, firstRun, workers, metricVars, optVars>>

NextOps == CrossoverCall \/ MutateCall
SpecOps == InitOps /\ [][NextOps]_vars

(***************************************************************************)
(* optimize called twice with the same config and the same bars            *)
(***************************************************************************)
TwinRuns ==
    {<<OptConfig(2, 1, Half, "sortinoRatio", ConstraintsStop), TwoTrades>>,
     <<OptConfig(2, 1, Zero, "maxDrawdown", ConstraintsRisk), TwoTrades>>}

InitTwin ==
    /\ pc = "Initializing"
    /\ \E run \in TwinRuns : config = run[1] /\ historicalData = run[2]
    /\ population = <<>>
    /\ results = <<>>
    /\ bestResult = NoValue
    /\ selected = <<>>
    /\ newPopulation = <<>>
    /\ generation = 0
    /\ error = "none"
    /\ seen = {}
    /\ strategy = NoValue /\ i = 0 /\ position = 0 /\ entryPrice = Zero /\ exitPrice = Zero
    /\ IdleMetric /\ IdleOps

\* the first call has returned; optimize is called again: its locals are new,
\* this.config and the bars are the same, and Math.random takes no seed
Rerun ==
    /\ pc = "Done"
    /\ firstRun = NoValue
    /\ firstRun' = bestResult
    /\ pc' = "Initializing"
    /\ population' = <<>>
    /\ results' = <<>>
    /\ bestResult' = NoValue
    /\ selected' = <<>>
    /\ newPopulation' = <<>>
    /\ generation' = 0
    /\ seen' = {}
    /\ UNCHANGED <<config, error, parent1, parent2, child, workers, metricVars, evalVars>>

NextTwin ==
    \/ Initialize
    \/ Evaluate
    \/ UpdateBest
    \/ Select
    \/ Recombine
    \/ EndGeneration
    \/ Finish
    \/ Rerun
SpecTwin == InitTwin /\ [][NextTwin]_vars

(***************************************************************************)
(* One generation with the evaluateStrategy calls of its candidates taken  *)
(* in any order, one loop iteration per step                               *)
(***************************************************************************)
ParRuns ==
    {<<OptConfig(2, 1, Half, "sortinoRatio", ConstraintsWide), TwoTrades>>,
     <<OptConfig(2, 1, Half, "calmarRatio", ConstraintsWide), OneSwing>>}

InitPar ==
    /\ pc = "Initializing"
    /\ \E run \in ParRuns : config = run[1] /\ historicalData = run[2]
    /\ population = <<>>
    /\ results = <<>>
    /\ bestResult = NoValue
    /\ selected = <<>>
    /\ newPopulation = <<>>
    /\ generation = 0
    /\ error = "none"
    /\ seen = {}
    /\ strategy = NoValue /\ i = 0 /\ position = 0 /\ entryPrice = Zero /\ exitPrice = Zero
    /\ IdleMetric /\ IdleOps

\* StepWorker with one returns array for all calls
StepWorkerShared(ws, j, s, data) ==
    LET st == EvalIter(s, data, ws[j])
    IN [k \in 1..Len(ws) |-> IF k = j THEN st ELSE [ws[k] EXCEPT !.returns = st.returns]]

\* one loop iteration of call j: returns, position, entryPrice and i are
\* locals of the call
StepWorker(ws, j, s, data) == [ws EXCEPT ![j] = EvalIter(s, data, @)]

\* what a call that has left its loop returns
WorkerResult(s, st) == [parameters |-> s, metrics |-> calculateMetrics(st.returns)]

\* population.map(strategy => this.evaluateStrategy(strategy, historicalData))
StartWorkers ==
    /\ pc = "Evaluating"
    /\ workers = <<>>
    /\ workers' = [j \in 1..Len(population) |-> EvalStart]
    /\ UNCHANGED <<pc, parent1, parent2, child, firstRun, metricVars, evalVars, optVars>>

WorkerStep ==
    /\ pc = "Evaluating"
    /\ \E j \in 1..Len(workers) :
           /\ workers[j].i < Len(historicalData)
           /\ workers' = StepWorker(workers, j, population[j], historicalData)
    /\ UNCHANGED <<pc, parent1, parent2, child, firstRun, metricVars, evalVars, optVars>>

\* await Promise.all(...): every call has returned
Join ==
    /\ pc = "Evaluating"
    /\ workers # <<>>
    /\ \A j \in 1..Len(workers) : ~(workers[j].i < Len(historicalData))
    /\ results' = [j \in 1..Len(population) |-> WorkerResult(population[j], workers[j])]
    /\ seen' = seen \cup {Objective(results'[j], config.objective) : j \in 1..Len(population)}
    /\ pc' = "UpdatingBest"
    /\ UNCHANGED <<config, population, bestResult, selected, newPopulation, generation,
                   error, metricVars, evalVars, opVars>>

NextPar ==
    \/ Initialize
    \/ StartWorkers
    \/ WorkerStep
    \/ Join
    \/ UpdateBest
    \/ Select
SpecPar == InitPar /\ [][NextPar]_vars

(***************************************************************************)
(* Properties of calculateMetrics (SpecMetrics)                            *)
(***************************************************************************)
MetricNames ==
    {"sharpeRatio", "sortinoRatio", "calmarRatio", "maxDrawdown", "totalReturn", "winRate"}

\* C1: for every returns sequence, the empty one and all-zero ones included, the
\* six outputs of calculateMetrics are finite numbers (not NaN, not +/-Infinity).
\* Violated: the empty sequence divides 0 by 0.
C1_AllMetricsFinite ==
    pc = "returned" => \A f \in MetricNames : IsFinite(metrics[f])

\* the number of returns strictly greater than zero
Wins(rs) == Cardinality({j \in 1..Len(rs) : Gt(rs[j], Zero)})

\* C16: winRate is the number of returns strictly above zero divided by the
\* number of returns, and 0 for the empty sequence; a return of 0 is no win.
\* Violated: the empty sequence gives 0 / 0.
C16_WinRateIsFractionOfWins ==
    pc = "returned" =>
        metrics.winRate = IF returns = <<>> THEN Zero ELSE Rat(Wins(returns), Len(returns))

\* C17: maxDrawdown lies in [0, 1], and is 0 when every return is >= 0.
\* Violated: a first return of -1 or less leaves the peak at 0, and a later
\* return below -1 takes the value below zero.
C17_MaxDrawdownInUnitInterval ==
    pc = "returned" =>
        /\ Ge(metrics.maxDrawdown, Zero) /\ Le(metrics.maxDrawdown, One)
        /\ (\A j \in 1..Len(returns) : Ge(returns[j], Zero)) => metrics.maxDrawdown = Zero

\* C18: sharpeRatio is 0 when the returns have standard deviation 0 (they are
\* all equal), sortinoRatio is 0 when no return is negative, calmarRatio is 0
\* when maxDrawdown is 0.
\* Violated: the empty sequence has no negative return and a NaN sortinoRatio.
C18_DefinedZeroRules ==
    pc = "returned" =>
        /\ (returns # <<>> /\ \A j \in 1..Len(returns) : returns[j] = returns[1])
               => metrics.sharpeRatio = Zero
        /\ (\A j \in 1..Len(returns) : ~Lt(returns[j], Zero)) => metrics.sortinoRatio = Zero
        /\ metrics.maxDrawdown = Zero => metrics.calmarRatio = Zero

RECURSIVE ValueAfter(_, _)
\* the unit value compounded through the first k returns
ValueAfter(rs, k) == IF k = 0 THEN One ELSE Mul(ValueAfter(rs, k - 1), Add(One, rs[k]))

RECURSIVE PeakAfter(_, _, _)
\* the running peak of the value path after k returns, the path starting at
\* index first (0: the unit value counts, 1: it does not)
PeakAfter(rs, k, first) ==
    IF k = first THEN ValueAfter(rs, k)
    ELSE MathMax(PeakAfter(rs, k - 1, first), ValueAfter(rs, k))

RECURSIVE MaxObserved(_, _, _)
\* the largest (peak - value) / peak over the first k steps, 0 if none
MaxObserved(rs, k, first) ==
    IF k = 0 THEN Zero
    ELSE MathMax(MaxObserved(rs, k - 1, first),
                 Div(Sub(PeakAfter(rs, k, first), ValueAfter(rs, k)), PeakAfter(rs, k, first)))

\* C19: maxDrawdown is the largest drawdown (peak - value) / peak along the
\* path of a unit value compounded through the returns, the peak being the
\* running peak of that path (with or without the initial unit value), and 0
\* for the empty sequence.
\* Violated: the code's peak starts at 0, which is no value of the path.
C19_MaxDrawdownOfValuePath ==
    pc = "returned" =>
        \/ metrics.maxDrawdown = MaxObserved(returns, Len(returns), 0)
        \/ metrics.maxDrawdown = MaxObserved(returns, Len(returns), 1)

\* C29: the running peak of the drawdown starts at 0, not at the initial value
\* 1, so the first return never contributes a drawdown: a single return above
\* -1 gives maxDrawdown 0, and for a longer sequence of returns above -1 the
\* drawdown is measured from the value reached after the first return on, that
\* is against the running peak of the values after each return.
C29_FirstReturnNoDrawdown ==
    (pc = "returned" /\ \A j \in 1..Len(returns) : Gt(returns[j], Int2Num(-1))) =>
        /\ (Len(returns) = 1) => metrics.maxDrawdown = Zero
        /\ (Len(returns) >= 1) =>
               metrics.maxDrawdown = MaxObserved(returns, Len(returns), 1)

\* two losses of a half: the fall from 1 to 1/2 is not counted, the fall from
\* 1/2 to 1/4 is
C29_OnlySecondLossCounts ==
    /\ pc = "returned"
    /\ returns = <<Rat(-1, 2), Rat(-1, 2)>>
    /\ metrics.maxDrawdown = Rat(1, 2)

(***************************************************************************)
(* Properties of evaluateStrategy (SpecEval)                               *)
(***************************************************************************)
\* the bar the loop is about to read
CurrentBar == At(historicalData, i)

\* the bar touches the stop price and the target price of the open position
BothTouched ==
    LET stopLoss == StopLossPrice(strategy, position, entryPrice)
        takeProfit == TakeProfitPrice(strategy, position, entryPrice)
    IN IF position = 1
       THEN Le(CurrentBar.low, stopLoss) /\ Ge(CurrentBar.high, takeProfit)
       ELSE Ge(CurrentBar.high, stopLoss) /\ Le(CurrentBar.low, takeProfit)

\* the lower, for a long, or the higher, for a short, of the stop and target prices
ConservativeExit ==
    LET stopLoss == StopLossPrice(strategy, position, entryPrice)
        takeProfit == TakeProfitPrice(strategy, position, entryPrice)
    IN IF position = 1
       THEN (IF Le(stopLoss, takeProfit) THEN stopLoss ELSE takeProfit)
       ELSE (IF Ge(stopLoss, takeProfit) THEN stopLoss ELSE takeProfit)

\* C2: when the bar read with a position open touches both its stop-loss and its
\* take-profit price, the position is closed at min(stopLoss, takeProfit) if long
\* and at max(stopLoss, takeProfit) if short, and the trade's return at that
\* price is recorded; a long entered at 100 with stop 5% and target 10% meeting
\* a bar of low 94 and high 111 exits at 95 with return -0.05.
C2_BothTouchedExit ==
    [][(pc = "evaluateStrategy" /\ i < Len(historicalData) /\ position # 0 /\ BothTouched)
        => /\ position' = 0
           /\ exitPrice' = ConservativeExit
           /\ returns' = Append(returns,
                  Div(Mul(Int2Num(position), Sub(ConservativeExit, entryPrice)), entryPrice))
           /\ (/\ position = 1 /\ entryPrice = Int2Num(100)
               /\ strategy.stopLossPercentage = Int2Num(5)
               /\ strategy.takeProfitPercentage = Int2Num(10)
               /\ CurrentBar.low = Int2Num(94) /\ CurrentBar.high = Int2Num(111))
              => (exitPrice' = Int2Num(95) /\ returns'[Len(returns')] = Rat(-1, 20))]_vars

\* the long of the example has just been closed by the bar of low 94 and high 111
C2_LongExample ==
    /\ pc = "evaluateStrategy"
    /\ i >= 1 /\ i <= Len(historicalData)
    /\ At(historicalData, 0).close = Int2Num(90)
    /\ At(historicalData, i - 1).low = Int2Num(94)
    /\ At(historicalData, i - 1).high = Int2Num(111)
    /\ strategy.stopLossPercentage = Int2Num(5)
    /\ strategy.takeProfitPercentage = Int2Num(10)
    /\ position = 0 /\ entryPrice = Int2Num(100) /\ exitPrice = Int2Num(95)
    /\ returns = <<Rat(-1, 20)>>

\* C12: on fewer bars than the entry rule looks back (the 50 bars of the long
\* average), the simulation records no return.
\* Violated: the averages are taken over the bars there are, so the rule
\* signals at index 21 and a trade closes at index 22.
C12_ShortDataNoReturns ==
    Len(historicalData) < SmaLong => returns = <<>>

\* C23: in the simulation loop the position is always flat (0), long (1) or
\* short (-1); a position is opened only from flat, at the close of the bar
\* being read, and appends no return; a return is appended only when an open
\* position exits, and each exit appends exactly one return,
\* direction * (exitPrice - entryPrice) / entryPrice, and leaves the position
\* flat; one bar never both opens and closes, so the entries and the returns
\* alternate and the returns number the entries or one less.
C23_PositionAndReturns ==
    [][(pc = "evaluateStrategy" /\ pc' = pc) =>
           LET bar == At(historicalData, i)
           IN /\ i' = i + 1
              /\ position \in {-1, 0, 1} /\ position' \in {-1, 0, 1}
              /\ (position' # position) => (position = 0 \/ position' = 0)
              /\ (position = 0 /\ position' # 0) =>
                     /\ entryPrice' = bar.close
                     /\ returns' = returns
              /\ (position # 0 /\ position' = 0) =>
                     /\ entryPrice' = entryPrice
                     /\ returns' = Append(returns,
                            Div(Mul(Int2Num(position), Sub(exitPrice', entryPrice)),
                                entryPrice))
              /\ (position' = position) => (returns' = returns /\ entryPrice' = entryPrice)
      ]_vars

\* a short entered at 100 has been closed at 105, and one return is recorded
C23_ShortClosed ==
    /\ pc = "evaluateStrategy"
    /\ i = SmaShort + 3
    /\ At(historicalData, 0).close = Int2Num(110)
    /\ strategy.stopLossPercentage = Int2Num(5)
    /\ position = 0
    /\ entryPrice = Int2Num(100) /\ exitPrice = Int2Num(105)
    /\ returns = <<Rat(-1, 20)>>

\* C24: with a positive stop-loss and a positive take-profit percentage every
\* exit is priced at the stop-loss price, entry * (1 - stop/100) for a long and
\* entry * (1 + stop/100) for a short, whether the bar touched the stop, the
\* target or both; every recorded return equals -stopLossPercentage / 100, and
\* none is positive.
C24_EveryExitAtStop ==
    [][(/\ pc = "evaluateStrategy" /\ pc' = pc
        /\ Gt(strategy.stopLossPercentage, Zero)
        /\ Gt(strategy.takeProfitPercentage, Zero)) =>
           LET loss == Div(strategy.stopLossPercentage, Int2Num(100))
           IN /\ (position # 0 /\ position' = 0) =>
                     exitPrice' = Mul(entryPrice, Sub(One, Mul(Int2Num(position), loss)))
              /\ \A j \in 1..Len(returns') :
                     returns'[j] = Neg(loss) /\ ~Gt(returns'[j], Zero)
      ]_vars

\* a long entered at 100 with stop 5% and target 10% has been closed by a bar
\* of low 99 and high 111, which touched the target only: it exits at 95
C24_TargetOnlyTouched ==
    /\ pc = "evaluateStrategy"
    /\ i >= 1 /\ i <= Len(historicalData)
    /\ At(historicalData, 0).close = Int2Num(90)
    /\ At(historicalData, i - 1).low = Int2Num(99)
    /\ At(historicalData, i - 1).high = Int2Num(111)
    /\ strategy.stopLossPercentage = Int2Num(5)
    /\ strategy.takeProfitPercentage = Int2Num(10)
    /\ position = 0 /\ entryPrice = Int2Num(100) /\ exitPrice = Int2Num(95)
    /\ returns = <<Rat(-1, 20)>>

\* C28: no position is opened at a bar index of 20 or less, where the two
\* averages are taken over the same bars; the first index an entry can happen
\* at is 21 and the first an exit can happen at is 22, so bars numbering 22 or
\* fewer yield no return whatever the config.
\* (i is the index of the next bar to read: the last bar read is i - 1.)
C28_NoTradeBeforeIndex21 ==
    (pc \in {"evaluateStrategy", "returned"}) =>
        /\ (position # 0) => i - 1 >= 21
        /\ (returns # <<>>) => i - 1 >= 22
        /\ (Len(historicalData) <= 22) => returns = <<>>
        /\ (i <= 20 /\ i < Len(historicalData)) =>
               Slice(historicalData, Max0(i - SmaShort), i + 1)
                   = Slice(historicalData, Max0(i - SmaLong), i + 1)

\* 22 bars whose closes differ from the first on: the position was opened at
\* index 21, the last bar, and evaluateStrategy returned without a return
C28_EntryAtLastOf22 ==
    /\ pc = "returned"
    /\ Len(historicalData) = 22
    /\ At(historicalData, 0).close # At(historicalData, 1).close
    /\ At(historicalData, 1).close # At(historicalData, 2).close
    /\ i = 22
    /\ position # 0
    /\ entryPrice = At(historicalData, 21).close
    /\ returns = <<>>

\* the bar the loop is about to read reaches the stop-loss or the take-profit
\* price of the open position
StopOrTargetTouched ==
    LET stopLoss == StopLossPrice(strategy, position, entryPrice)
        takeProfit == TakeProfitPrice(strategy, position, entryPrice)
    IN IF position = 1
       THEN Le(CurrentBar.low, stopLoss) \/ Ge(CurrentBar.high, takeProfit)
       ELSE Ge(CurrentBar.high, stopLoss) \/ Le(CurrentBar.low, takeProfit)

\* C30: a position still open after the last bar is not closed: the end of the
\* loop appends no return and leaves the position as it is, and the metrics are
\* those of the returns recorded in the loop; a return is recorded only when a
\* bar read while the position was open touched its stop or its target.
C30_OpenPositionNotClosed ==
    [][/\ (pc = "evaluateStrategy" /\ pc' = "returned") =>
              /\ returns' = returns
              /\ position' = position
              /\ metrics' = calculateMetrics(returns)
       /\ (returns' # returns) =>
              /\ pc = "evaluateStrategy" /\ i < Len(historicalData)
              /\ position # 0
              /\ StopOrTargetTouched
              /\ Len(returns') = Len(returns) + 1
      ]_vars

\* evaluateStrategy returned with a position opened at the last bar, after an
\* earlier trade was closed: one return for two entries
C30_OpenAtEnd ==
    /\ pc = "returned"
    /\ Len(historicalData) = SmaShort + 4
    /\ i = Len(historicalData)
    /\ position # 0
    /\ Len(returns) = 1
    /\ metrics = calculateMetrics(returns)

(***************************************************************************)
(* Properties of optimize (Spec)                                           *)
(***************************************************************************)
ObjectiveOf(res) == Objective(res, config.objective)

\* C3: the candidate optimize returns has an objective value greater than or
\* equal to that of every candidate evaluated in any generation of the run
\* (stated for the evaluated objectives that are numbers).
\* Violated: a first candidate with a NaN objective is never displaced.
C3_ReturnedIsBestEver ==
    pc = "Done" => \A v \in seen : IsNaN(v) \/ Ge(ObjectiveOf(bestResult), v)

\* the best result after this generation's update is the first of the
\* generation's results with its objective value
FirstOfItsValue(best, rs) ==
    \E j \in 1..Len(rs) :
        /\ best = rs[j]
        /\ \A m \in 1..(j - 1) : ~StrictEq(ObjectiveOf(rs[m]), ObjectiveOf(rs[j]))

\* C4: the best-ever candidate is replaced only by a candidate whose objective
\* is strictly greater than the incumbent's; a candidate with an equal objective,
\* later in the same generation or in a later generation, never takes its place,
\* and the best-ever objective never decreases.
C4_ReplacedOnlyByStrictlyGreater ==
    [][/\ (bestResult # NoValue /\ bestResult' # bestResult)
           => Gt(Objective(bestResult', config.objective), ObjectiveOf(bestResult))
       /\ (bestResult # NoValue /\ bestResult' # NoValue)
           => ~Lt(Objective(bestResult', config.objective), ObjectiveOf(bestResult))
       /\ (bestResult' # bestResult) => FirstOfItsValue(bestResult', results)]_vars

\* in a later generation a child has taken the place of the incumbent, ahead of
\* a later candidate of the generation with the same objective value
C4_ReplacedInLaterGeneration ==
    /\ pc = "Selecting"
    /\ generation >= 1
    /\ \E j \in 1..Len(results) :
           /\ bestResult = results[j]
           /\ \A v \in seen : Ge(ObjectiveOf(bestResult), v)
           /\ \E v \in seen : Gt(ObjectiveOf(bestResult), v)
           /\ \E m \in (j + 1)..Len(results) :
                  /\ results[m] # results[j]
                  /\ StrictEq(ObjectiveOf(results[m]), ObjectiveOf(results[j]))

\* C5: optimize throws 'Optimization failed to find a solution' only when the
\* population size is zero; with a population size of at least 1 it never
\* throws and returns a best candidate.
\* Violated: a population of one leaves the parent pool empty; zero generations
\* leave no best candidate.
C5_FailsOnlyOnEmptyPopulation ==
    /\ error = "Optimization failed to find a solution" => config.populationSize = 0
    /\ config.populationSize >= 1 => (error = "none" /\ pc # "Thrown")
    /\ (config.populationSize >= 1 /\ pc = "Done") => bestResult # NoValue

\* C6: a run with at least one candidate and one generation ends in Done, after
\* exactly config.generations generations.
\* Violated: the run of a population of one ends in its first generation.
C6_EndsInDoneAfterAllGenerations ==
    (pc \in {"Done", "Thrown"} /\ config.populationSize >= 1 /\ config.generations >= 1)
        => (pc = "Done" /\ generation = config.generations)

\* the candidate of this result closed no trade
NoReturns(res) == ReturnsOf(res.parameters, historicalData) = <<>>

\* C13: a candidate with an empty return sequence scores worst: once the best
\* is updated it is not the best while a candidate of the generation with
\* returns has another objective value, and selection does not rank it above
\* such a candidate.
\* Violated: its calmarRatio is 0, above every negative calmarRatio, and its
\* sharpeRatio and sortinoRatio are NaN, which a first candidate keeps.
C13_EmptyReturnsScoreWorst ==
    /\ pc = "Selecting" =>
           (NoReturns(bestResult) =>
                \A j \in 1..Len(results) :
                    \/ NoReturns(results[j])
                    \/ StrictEq(ObjectiveOf(results[j]), ObjectiveOf(bestResult)))
    /\ pc = "Recombining" =>
           \A u \in 1..Len(results), v \in 1..Len(results) :
               (u < v /\ NoReturns(results[u]) /\ ~NoReturns(results[v]))
                   => StrictEq(ObjectiveOf(results[u]), ObjectiveOf(results[v]))

Within(v, range) == Le(range[1], v) /\ Le(v, range[2])

InBounds(s, c) ==
    /\ Within(s.maxPositionSize, c.maxPositionSize)
    /\ Within(s.stopLossPercentage, c.stopLossPercentage)
    /\ Within(s.takeProfitPercentage, c.takeProfitPercentage)
    /\ Within(s.maxDrawdown, c.maxDrawdown)

WellFormed(c) ==
    /\ Le(c.maxPositionSize[1], c.maxPositionSize[2])
    /\ Le(c.stopLossPercentage[1], c.stopLossPercentage[2])
    /\ Le(c.takeProfitPercentage[1], c.takeProfitPercentage[2])
    /\ Le(c.maxDrawdown[1], c.maxDrawdown[2])

\* C14: with a bound whose min is above its max the run fails before any
\* candidate is simulated: nothing is evaluated and nothing is returned.
\* Violated: nothing reads the bounds before the draws; the run completes.
C14_InvertedBoundsFailFast ==
    ~WellFormed(config.constraints) => (seen = {} /\ results = <<>> /\ pc # "Done")

\* C15: with populationSize <= 0 or generations <= 0 the run ends in an error,
\* no candidate is simulated and no result is returned: the only way on from
\* the best update (no results) or from the end of the loop (no best) is a throw.
C15_NonPositiveCountsFail ==
    (config.populationSize <= 0 \/ config.generations <= 0) =>
        /\ seen = {}
        /\ pc \in {"Initializing", "Evaluating", "UpdatingBest", "Finishing", "Thrown"}
        /\ pc = "UpdatingBest" => results = <<>>
        /\ pc = "Finishing" => bestResult = NoValue
        /\ pc = "Thrown" => error # "none"

\* a population was drawn, no generation ran, and the run has thrown
C15_ZeroGenerationsThrown ==
    /\ pc = "Thrown"
    /\ config.generations <= 0
    /\ config.populationSize >= 1
    /\ Len(population) = config.populationSize
    /\ error = "Optimization failed to find a solution"
    /\ seen = {}

\* C7: with every bound min <= max, every candidate of the population of every
\* generation, and of the next population being built, has its four numeric
\* parameters inside their [min, max] bounds.
C7_PopulationWithinBounds ==
    WellFormed(config.constraints) =>
        /\ \A j \in 1..Len(population) : InBounds(population[j], config.constraints)
        /\ \A j \in 1..Len(newPopulation) : InBounds(newPopulation[j], config.constraints)

\* a generation of children holds a kept and a redrawn stop loss
C7_ChildrenGeneration ==
    /\ generation >= 1
    /\ config.constraints = ConstraintsWide
    /\ \E j \in 1..Len(population), k \in 1..Len(population) :
           /\ population[j].stopLossPercentage = Int2Num(5)
           /\ population[k].stopLossPercentage = Int2Num(50)
           /\ population[k].takeProfitPercentage = Int2Num(20)

\* the stable descending order of the generation, read off the sorted results
DescendingStable(sorted, pop) ==
    \A u \in 1..Len(sorted), v \in 1..Len(sorted) :
        u < v =>
            /\ ~Gt(ObjectiveOf(sorted[v]), ObjectiveOf(sorted[u]))
            /\ StrictEq(ObjectiveOf(sorted[u]), ObjectiveOf(sorted[v]))
                   => \/ sorted[u] = sorted[v]
                      \/ \E a \in 1..Len(pop), b \in 1..Len(pop) :
                             /\ a < b
                             /\ pop[a] = sorted[u].parameters
                             /\ pop[b] = sorted[v].parameters

\* C10: selection orders the generation's evaluated candidates by descending
\* objective, equal objectives in population order, and keeps the first
\* floor(n/2) of the n candidates.
\* Violated: a NaN objective between two finite ones leaves the order to the engine.
C10_SelectionKeepsTopHalf ==
    pc = "Recombining" =>
        /\ Len(selected) = Len(population) \div 2
        /\ selected = SubSeq(results, 1, Len(selected))
        /\ DescendingStable(results, population)

(***************************************************************************)
(* Properties of crossover and mutate (SpecOps)                            *)
(***************************************************************************)
Elems(s) == {s[j] : j \in 1..Len(s)}

NumericFields ==
    {"maxPositionSize", "stopLossPercentage", "takeProfitPercentage", "maxDrawdown"}

\* C8: each numeric field of the child of crossover equals parent1's or
\* parent2's value of that field, and the child's indicators are the union of
\* the parents' indicators, each listed once.
C8_ChildFieldsFromParents ==
    pc = "mutate" =>
        /\ \A f \in NumericFields : child[f] = parent1[f] \/ child[f] = parent2[f]
        /\ Elems(child.indicators) = Elems(parent1.indicators) \cup Elems(parent2.indicators)
        /\ Len(child.indicators) = Cardinality(Elems(child.indicators))

\* a child mixing both parents, whose indicator lists overlap and repeat
C8_MixedChild ==
    /\ pc = "mutate"
    /\ \A f \in NumericFields : parent1[f] # parent2[f]
    /\ child.maxPositionSize = parent1.maxPositionSize
    /\ child.stopLossPercentage = parent2.stopLossPercentage
    /\ child.takeProfitPercentage = parent2.takeProfitPercentage
    /\ child.maxDrawdown = parent1.maxDrawdown
    /\ Len(parent1.indicators) + Len(parent2.indicators) > Len(child.indicators) + 1

\* the values randomInRange can draw for a bound
DrawsOf(range) ==
    {Add(range[1], Mul(r, Sub(range[2], range[1]))) : r \in RandomValues}

\* C9: mutate with mutationRate 0 returns its input unchanged in every field;
\* mutate with mutationRate 1 redraws each of the four numeric fields within
\* its bound and leaves the other fields alone.
C9_MutateAtRateZeroAndOne ==
    pc = "returned" =>
        /\ config.mutationRate = Zero => child = strategy
        /\ config.mutationRate = One =>
               /\ \A f \in NumericFields :
                      /\ child[f] \in DrawsOf(config.constraints[f])
                      /\ Within(child[f], config.constraints[f])
               /\ \A f \in (DOMAIN strategy) \ NumericFields : child[f] = strategy[f]

\* at rate 1 all four fields of the input have been replaced by draws
C9_AllRedrawn ==
    /\ pc = "returned"
    /\ config.mutationRate = One
    /\ \A f \in NumericFields : child[f] # strategy[f] /\ child[f] \in DrawsOf(config.constraints[f])
    /\ child.stopLossPercentage = Int2Num(50)

\* C22: mutate does not modify its input: the config it returns has the
\* input's name, description, riskLevel, rebalanceFrequency and indicators, each
\* numeric field of it either equals the input's or, when the field's condition
\* can hold at the configured rate, is a draw within the field's bound, and the
\* object passed in has after the call the field values it had before.
C22_MutateLeavesInputAlone ==
    [][(pc = "mutate" /\ pc' = "returned") =>
           /\ strategy' = child
           /\ DOMAIN child' = DOMAIN child
           /\ \A f \in (DOMAIN child) \ NumericFields : child'[f] = child[f]
           /\ \A f \in NumericFields :
                  \/ child'[f] = child[f]
                  \/ /\ \E r \in RandomValues : Lt(r, config.mutationRate)
                     /\ child'[f] \in DrawsOf(config.constraints[f])
      ]_vars

\* at rate 1/2 mutate redrew the stop loss and kept the position size; the
\* input still holds the stop loss it got from a parent
C22_OneFieldRedrawn ==
    /\ pc = "returned"
    /\ config.mutationRate = Half
    /\ strategy.stopLossPercentage = Int2Num(20)
    /\ child.stopLossPercentage = Int2Num(50)
    /\ child.maxPositionSize = strategy.maxPositionSize
    /\ child.maxPositionSize = Rat(2, 5)
    /\ child.takeProfitPercentage # strategy.takeProfitPercentage
    /\ child.name = strategy.name /\ child.indicators = strategy.indicators

(***************************************************************************)
(* Properties of the generations of optimize (Spec)                        *)
(***************************************************************************)
\* c has the shape of mutate(crossover(p1, p2)) for two members of the pool:
\* a new name, the fixed description, each remaining field from a parent
\* or, for a numeric field, redrawn within its bound
CreatedFrom(c, pool) ==
    \E a \in 1..Len(pool), b \in 1..Len(pool) :
        LET p1 == pool[a].parameters
            p2 == pool[b].parameters
        IN /\ c.name \in {"Strategy_" \o Base36Tail(rn) : rn \in NameRandoms}
           /\ c.description = "Optimized strategy"
           /\ c.riskLevel \in {p1.riskLevel, p2.riskLevel}
           /\ c.rebalanceFrequency \in {p1.rebalanceFrequency, p2.rebalanceFrequency}
           /\ Elems(c.indicators) = Elems(p1.indicators) \cup Elems(p2.indicators)
           /\ \A f \in NumericFields :
                  c[f] \in {p1[f], p2[f]} \cup DrawsOf(config.constraints[f])

\* rs is ss in another order
Reordered(rs, ss) ==
    /\ Len(rs) = Len(ss)
    /\ \E p \in Permutations(1..Len(ss)) : rs = [j \in 1..Len(ss) |-> ss[p[j]]]

\* C21: in a generation every candidate of the population is evaluated once
\* (one result per candidate, and the results change afterwards only by being
\* sorted); every candidate added to the next population is a new config made
\* by crossover and then mutation of members of the pool; the next population
\* is exactly those new configs, and of the evaluated candidates only the
\* best-ever result is kept into the next generation.
C21_GenerationsAreFresh ==
    [][/\ (pc = "Evaluating" /\ pc' # pc) =>
              /\ Len(results') = Len(population)
              /\ \A j \in 1..Len(population) : results'[j].parameters = population[j]
       /\ (results' # results) =>
              \/ pc = "Evaluating"
              \/ pc = "Selecting" /\ Reordered(results', results)
       /\ (newPopulation' # newPopulation /\ newPopulation' # <<>>) =>
              /\ pc = "Recombining"
              /\ Len(newPopulation') = Len(newPopulation) + 1
              /\ SubSeq(newPopulation', 1, Len(newPopulation)) = newPopulation
              /\ CreatedFrom(newPopulation'[Len(newPopulation')], selected)
       /\ (generation' # generation) =>
              /\ generation' = generation + 1
              /\ population' = newPopulation
              /\ bestResult' = bestResult
       /\ (population' # population /\ pc # "Initializing") => generation' = generation + 1
      ]_vars

\* the second generation is being evaluated: its candidates are all children,
\* and the best-ever result is a candidate of the initial population
C21_ChildrenAndKeptBest ==
    /\ pc = "UpdatingBest"
    /\ generation = 1
    /\ Len(population) = 3
    /\ \A j \in 1..Len(population) : population[j].name = "Strategy_i"
    /\ \A j \in 1..Len(results) : results[j].parameters = population[j]
    /\ bestResult # NoValue
    /\ bestResult.parameters.name \in {"Strategy_0", "Strategy_1", "Strategy_2"}

\* C25: when the first candidate evaluated in a generation has a NaN objective,
\* that candidate is the generation's best whatever the others score: it becomes
\* the best-ever result if there is none yet, and it does not replace one there
\* is; a best-ever result whose objective is NaN is never replaced, so it is the
\* result optimize returns.
C25_NaNFirstWins ==
    [][/\ (/\ pc = "UpdatingBest" /\ results # <<>>
           /\ IsNaN(ObjectiveOf(results[1]))) =>
              bestResult' = IF bestResult = NoValue THEN results[1] ELSE bestResult
       /\ (bestResult # NoValue /\ IsNaN(ObjectiveOf(bestResult))) =>
              bestResult' = bestResult
      ]_vars

\* optimize has returned the first candidate of the initial population, whose
\* objective is NaN, after two generations in which finite objectives were seen
C25_NaNReturned ==
    /\ pc = "Done"
    /\ generation = 2
    /\ IsNaN(ObjectiveOf(bestResult))
    /\ bestResult.parameters.name = "Strategy_0"
    /\ \E v \in seen : IsFinite(v)
    /\ \E j \in 1..Len(results) : IsFinite(ObjectiveOf(results[j]))

\* values Math.random() can return, up to just below 1
UnitDraws == {Zero, Rat(1, 4), Rat(1, 2), Rat(3, 4), Rat(99, 100)}

\* C26: with populationSize >= 2 the selection pool of every generation holds
\* floor(populationSize / 2) >= 1 results; every index a parent is drawn at is
\* an index of the pool (the two parents may be the same member), and
\* recombination never reads the parameters of a missing candidate.
C26_PoolNeverEmpty ==
    (config.populationSize >= 2) =>
        /\ error # "TypeError"
        /\ (pc = "Recombining") =>
               /\ Len(selected) = config.populationSize \div 2
               /\ Len(selected) >= 1
               /\ \A r \in UnitDraws : ParentIndex(r, selected) + 1 \in DOMAIN selected
               /\ \A j \in DOMAIN selected : selected[j] # NoValue

\* a population of three leaves a pool of one: both parents of each of the two
\* children made so far in the second generation were that one member
C26_SingleMemberPool ==
    /\ pc = "Recombining"
    /\ generation = 1
    /\ config.populationSize = 3
    /\ Len(selected) = 1
    /\ Len(newPopulation) = 2
    /\ error = "none"

\* C27: with populationSize >= 2 the population evaluated in every generation
\* has exactly populationSize candidates, one result each: the initial
\* population has that size and recombination refills the next one to that
\* size whatever the size of the pool.
C27_PopulationSizeKept ==
    (config.populationSize >= 2 /\ pc \notin {"Initializing"}) =>
        /\ Len(population) = config.populationSize
        /\ (pc \in {"UpdatingBest", "Selecting"}) => Len(results) = config.populationSize
        /\ Len(newPopulation) <= config.populationSize

\* the third generation of three candidates is about to be evaluated, refilled
\* from a pool of one
C27_RefilledFromOne ==
    /\ pc = "Evaluating"
    /\ generation = 1
    /\ config.populationSize = 3
    /\ Len(selected) = 1
    /\ Len(population) = 3
    /\ population = newPopulation

(***************************************************************************)
(* Properties of two optimize calls (SpecTwin)                             *)
(***************************************************************************)
\* C11: two runs of optimize with the same configuration and the same bars
\* return the same best candidate with the same metric values.
\* Violated: every draw is Math.random(), which takes no seed, so the second
\* run draws another population.
C11_RunsAgree ==
    (pc = "Done" /\ firstRun # NoValue) =>
        /\ bestResult.parameters = firstRun.parameters
        /\ bestResult.metrics = firstRun.metrics

(***************************************************************************)
(* Properties of the evaluations of one generation (SpecPar)               *)
(***************************************************************************)
\* the results of evaluating the population one candidate after the other
SequentialResults ==
    [j \in 1..Len(population) |-> Evaluated(population[j], historicalData)]

\* C20: the evaluations of a generation share no state: a step of one leaves
\* the bars, the candidates and the other evaluations' locals as they were; in
\* whatever order their steps are taken each candidate gets the result of
\* evaluating it alone, and so the generation has the same best and the same
\* pool; the best update starts only when every evaluation has ended.
C20_EvaluationsIndependent ==
    [][/\ historicalData' = historicalData
       /\ (pc = "Evaluating" => population' = population)
       /\ (pc = "Evaluating" /\ pc' = "Evaluating" /\ workers # <<>>)
              => \A j \in 1..Len(workers), k \in 1..Len(workers) :
                     (workers'[j] # workers[j] /\ k # j) => workers'[k] = workers[k]
       /\ (pc = "Evaluating" /\ pc' = "UpdatingBest")
              => /\ \A j \in 1..Len(workers) : workers[j].i >= Len(historicalData)
                 /\ Len(workers) = Len(population)
                 /\ results' = SequentialResults
       /\ (pc = "UpdatingBest" /\ pc' = "Selecting")
              => bestResult' = CurrentBest(SequentialResults, config.objective)
       /\ (pc = "Selecting" /\ pc' = "Recombining")
              => \A sorted \in SortOutcomes(SequentialResults, config.objective) :
                     selected' = SelectTop(sorted, Len(population))]_vars

\* the second candidate's evaluation has closed a trade and ended while the
\* first one's is in its loop with a position open
C20_OutOfOrder ==
    /\ pc = "Evaluating"
    /\ Len(workers) = 2
    /\ population[1].stopLossPercentage # population[2].stopLossPercentage
    /\ workers[2].i >= Len(historicalData)
    /\ workers[2].returns # <<>>
    /\ workers[1].i > 1 /\ workers[1].i < Len(historicalData)
    /\ workers[1].position # 0

====
